---- MODULE Spec2Model ----
(***************************************************************************)
(* Model of the expression parser of src/lang/expr/expr.go (package        *)
(* parser): ParseExpr and the recursive-descent functions under it.        *)
(*                                                                         *)
(* The scanner and the token package are not part of the source at hand;   *)
(* they are modelled from the specification's token source adapter: a      *)
(* source text is a sequence of tokens, every token occupies one byte, so  *)
(* the byte offset of the k-th token is k - 1 and the offset at end of     *)
(* input is the length of the source.                                      *)
(***************************************************************************)
EXTENDS Integers, Sequences, FiniteSets, TLC

VARIABLES src, pc, result

vars == <<src, pc, result>>

(***************************************************************************)
(* Bounds of the model.                                                    *)
(***************************************************************************)
MaxLen == 4
MaxOperands == 4
MaxArgs == 2
MaxGroup == 2
MaxBody == 4
MaxNest == 3

(***************************************************************************)
(* Tokens.  A token of the source is a record of its kind and its literal  *)
(* text ("" for tokens that carry no literal).                             *)
(***************************************************************************)
Tok(k) == [tok |-> k, lit |-> ""]

IdentF == [tok |-> "Identifier", lit |-> "f"]

IdentX == [tok |-> "Identifier", lit |-> "x"]

Int1 == [tok |-> "Int", lit |-> "1"]

Int2 == [tok |-> "Int", lit |-> "2"]

\* token.Token.Precedence: the binary operators' levels, 0 for anything else
Precedence(t) ==
    CASE t = "LogicalOr" -> 1
      [] t = "LogicalAnd" -> 2
      [] t \in {"Equal", "NotEqual", "Less", "Greater"} -> 3
      [] t \in {"Add", "Sub"} -> 4
      [] t \in {"Mul", "Div", "Rem"} -> 5
      [] OTHER -> 0

(***************************************************************************)
(* Parser state p: the scanner (source s, index i of the current token,    *)
(* 0 before the first Next; serr, the scanner's err field) and the         *)
(* parser's error list err.  panic holds the message of a panic raised by  *)
(* the parse, "" when there is none.                                       *)
(***************************************************************************)
newParser(s) == [s |-> s, i |-> 0, serr |-> "nil", err |-> <<>>, panic |-> ""]

\* p.s.Token: the kind of the current token, Unknown at end of input
Token(p) == IF p.i \in 1..Len(p.s) THEN p.s[p.i].tok ELSE "Unknown"

\* p.s.Literal
Literal(p) == IF p.i \in 1..Len(p.s) THEN p.s[p.i].lit ELSE ""

\* p.s.Offset: byte offset of the current token, len(src) at end of input
Offset(p) == IF p.i \in 1..Len(p.s) THEN p.i - 1 ELSE Len(p.s)

\* p.s.r > 0: the token source is not exhausted (the current token is not the
\* end of input)
SourceLeft(p) == p.i <= Len(p.s)

\* p.s.Next(): advance to the next token; at end of input record io.EOF
ScanNext(p) ==
    IF p.i >= Len(p.s)
    THEN [p EXCEPT !.i = Len(p.s) + 1, !.serr = "EOF"]
    ELSE [p EXCEPT !.i = p.i + 1]

RECURSIVE next(_)
\* parser.next: advance, skipping Comment tokens
next(p) ==
    LET q == ScanNext(p)
    IN  IF Token(q) = "Comment" THEN next(q) ELSE q

(***************************************************************************)
(* Expression nodes.                                                       *)
(***************************************************************************)
NilExpr == [kind |-> "nil"]

BinaryExpr(op, l, r) == [kind |-> "Binary", Op |-> op, Left |-> l, Right |-> r]

UnaryExpr(op, x) == [kind |-> "Unary", Op |-> op, Expr |-> x]

BadExpr(e) == [kind |-> "Bad", Error |-> e]

BasicLiteral(v) == [kind |-> "BasicLiteral", Value |-> v]

Ident(n) == [kind |-> "Ident", Name |-> n]

CallExpr(f, args) == [kind |-> "Call", Func |-> f, Args |-> args]

\* the Error struct; the scanner's io.EOF is the error value EOFError
Error(off, msg) == [Offset |-> off, Msg |-> msg]

EOFError == [Offset |-> -1, Msg |-> <<"EOF">>]

\* parser.error: append an entry tagged with the scanner's current offset
error(p, msg) == [p EXCEPT !.err = Append(p.err, Error(Offset(p), msg))]

\* parser.expect: record an error when the current token is not t
expect(p, t) ==
    IF Token(p) = t
    THEN [p |-> p, met |-> TRUE]
    ELSE [p |-> error(p, <<"expected", t, "found", Token(p)>>), met |-> FALSE]

\* expectCommaOr faking the comma without recording the error
expectCommaOr_Silent(p, otherwise, msg) ==
    CASE Token(p) = "Comma" -> [p |-> p, ok |-> TRUE]
      [] Token(p) # "Comma" /\ Token(p) # otherwise -> [p |-> p, ok |-> TRUE]
      [] OTHER -> [p |-> p, ok |-> FALSE]

\* parser.expectCommaOr
expectCommaOr(p, otherwise, msg) ==
    CASE Token(p) = "Comma" -> [p |-> p, ok |-> TRUE]
      [] Token(p) # "Comma" /\ Token(p) # otherwise ->
            [p |-> error(p, <<"missing ',' in", msg, "got", Token(p)>>), ok |-> TRUE]
      [] OTHER -> [p |-> p, ok |-> FALSE]

\* parser.parseIdent
parseIdent(p) ==
    [p |-> next(expect(p, "Identifier").p),
     x |-> Ident(IF expect(p, "Identifier").met THEN Literal(p) ELSE "_")]

\* a panic unwinds the parse: the result carries its message
Panic(p, msg) == [p |-> [p EXCEPT !.panic = msg], x |-> NilExpr]

RECURSIVE parseBinaryExpr(_, _, _)
RECURSIVE binaryRun(_, _, _)
RECURSIVE binaryLevels(_, _, _, _)
RECURSIVE parseUnaryExpr(_, _)
RECURSIVE parsePrimaryExpr(_, _)
RECURSIVE parseOperand(_, _)
RECURSIVE parseArgs(_)
RECURSIVE argsLoop(_, _)

\* parser.parseExpr
parseExpr(p, lhs) == parseBinaryExpr(p, lhs, 1)

\* the inner loop's body after y := p.parseBinaryExpr(false, prec+1)
binaryRunRest(y, op, x, prec) ==
    IF y.p.panic # "" THEN y ELSE binaryRun(y.p, BinaryExpr(op, x, y.x), prec)

\* binaryRun with the right operand parsed at prec instead of prec + 1
binaryRun_SamePrec(p, x, prec) ==
    IF Precedence(Token(p)) # prec
    THEN [p |-> p, x |-> x]
    ELSE binaryRunRest(parseBinaryExpr(next(p), FALSE, prec), Token(p), x, prec)

\* the inner loop of parseBinaryExpr: a run of operators of precedence prec
binaryRun(p, x, prec) ==
    IF Precedence(Token(p)) # prec
    THEN [p |-> p, x |-> x]
    ELSE binaryRunRest(parseBinaryExpr(next(p), FALSE, prec + 1), Token(p), x, prec)

\* the outer loop after the run r of precedence prec: prec--
binaryLevelsRest(r, prec, minPrec) ==
    IF r.p.panic # "" THEN r ELSE binaryLevels(r.p, r.x, prec - 1, minPrec)

\* the outer loop of parseBinaryExpr: prec counts down to minPrec
binaryLevels(p, x, prec, minPrec) ==
    IF prec < minPrec
    THEN [p |-> p, x |-> x]
    ELSE binaryLevelsRest(binaryRun(p, x, prec), prec, minPrec)

\* parseBinaryExpr after x := p.parseUnaryExpr(lhs)
parseBinaryRest(x, minPrec) ==
    IF x.p.panic # ""
    THEN x
    ELSE binaryLevels(x.p, x.x, Precedence(Token(x.p)), minPrec)

\* parser.parseBinaryExpr
parseBinaryExpr(p, lhs, minPrec) == parseBinaryRest(parseUnaryExpr(p, lhs), minPrec)

\* parseUnaryExpr after x := p.parseUnaryExpr(false)
unaryRest(x, op) ==
    IF x.p.panic # "" THEN x ELSE [p |-> x.p, x |-> UnaryExpr(op, x.x)]

\* parseUnaryExpr after p.next() past the prefix operator op; q is the parser then
unaryOperand(op, q) ==
    IF q.serr # "nil"
    THEN [p |-> q, x |-> BadExpr(EOFError)]
    ELSE unaryRest(parseUnaryExpr(q, FALSE), op)

\* parser.parseUnaryExpr
parseUnaryExpr(p, lhs) ==
    CASE Token(p) \in {"Add", "Sub", "Not"} -> unaryOperand(Token(p), next(p))
      [] Token(p) = "Mul" -> unaryRest(parseUnaryExpr(next(p), FALSE), "Mul")
      [] OTHER -> parsePrimaryExpr(p, lhs)

\* the end of an iteration of the loop of parseArgs; c is expectCommaOr's result
argsNext(c, args) ==
    IF ~c.ok
    THEN [p |-> c.p, args |-> args]
    ELSE argsLoop(next(c.p), args)

\* an iteration of the loop of parseArgs after a := p.parseExpr(false)
argsLoopRest(a, args) ==
    IF a.p.panic # ""
    THEN [p |-> a.p, args |-> args]
    ELSE argsNext(expectCommaOr(a.p, "RightParen", "arguments"), Append(args, a.x))

\* the loop of parser.parseArgs
argsLoop(p, args) ==
    IF Token(p) # "RightParen" /\ SourceLeft(p)
    THEN argsLoopRest(parseExpr(p, FALSE), args)
    ELSE [p |-> p, args |-> args]

\* parseArgs after its loop returned l
parseArgsRest(l) ==
    IF l.p.panic # ""
    THEN l
    ELSE [p |-> next(expect(l.p, "RightParen").p), args |-> l.args]

\* parser.parseArgs
parseArgs(p) == parseArgsRest(argsLoop(next(expect(p, "LeftParen").p), <<>>))

\* the Period case of parsePrimaryExpr after p.next(); q is the parser then
selectorSuffix(q) ==
    CASE Token(q) = "Identifier" -> Panic(q, "TODO parse selector")
      [] Token(q) = "LeftParen" -> Panic(q, "TODO parse type assertion")
      [] OTHER -> Panic(q, "TODO expect selector type assertion")

\* the LeftParen case of parsePrimaryExpr after args := p.parseArgs()
callSuffix(a, f) ==
    IF a.p.panic # ""
    THEN [p |-> a.p, x |-> NilExpr]
    ELSE [p |-> a.p, x |-> CallExpr(f, a.args)]

\* the suffix switch of parsePrimaryExpr on the operand x
primarySuffix(x) ==
    IF x.p.panic # ""
    THEN x
    ELSE CASE Token(x.p) = "Period" -> selectorSuffix(next(x.p))
           [] Token(x.p) = "LeftBracket" -> Panic(x.p, "TODO array index")
           [] Token(x.p) = "LeftParen" -> callSuffix(parseArgs(x.p), x.x)
           [] Token(x.p) = "LeftBrace" -> Panic(x.p, "TODO could be composite literal")
           [] OTHER -> x

\* parser.parsePrimaryExpr
parsePrimaryExpr(p, lhs) == primarySuffix(parseOperand(p, lhs))

\* the LeftParen case of parseOperand after expr := p.parseExpr(false)
groupOperand(e) ==
    IF e.p.panic # ""
    THEN e
    ELSE [p |-> expect(e.p, "RightParen").p, x |-> UnaryExpr("LeftParen", e.x)]

\* the fall-through of parseOperand after p.next(); q is the parser then
badOperand(q) ==
    [p |-> error(q, <<"expected operand">>),
     x |-> BadExpr(Error(Offset(q), <<"expected operand">>))]

\* parser.parseOperand
parseOperand(p, lhs) ==
    CASE Token(p) = "Identifier" -> parseIdent(p)
      [] Token(p) \in {"Int", "Float", "Imaginary", "String"} ->
            [p |-> next(p), x |-> BasicLiteral(Literal(p))]
      [] Token(p) = "LeftParen" -> groupOperand(parseExpr(next(p), FALSE))
      [] OTHER -> badOperand(next(p))

(***************************************************************************)
(* ParseExpr.  The outcome is a record: the returned tree, the returned    *)
(* error (kind nil, ErrUnexpectedEOF or Errors with the list), panic, the  *)
(* message of the panic that ended the call instead of a return, and left, *)
(* whether the scanner had not reached the end of input at the return.     *)
(***************************************************************************)
NilError == [kind |-> "nil", list |-> <<>>]

Errors(l) == [kind |-> "Errors", list |-> l]

Return(x, e, l) == [expr |-> x, err |-> e, panic |-> "", left |-> l]

\* p.s.err as an error value
scanErr(p) == IF p.serr = "nil" THEN NilError ELSE [kind |-> p.serr, list |-> <<>>]

\* the error ParseExpr returns for the parser p after parseExpr
returnedError(p) ==
    IF Len(p.err) > 0
    THEN Errors(p.err)
    ELSE IF p.serr # "EOF" THEN scanErr(p) ELSE NilError

\* ParseExpr after parseExpr returned r, or panicked
parsed(r) ==
    IF r.p.panic # ""
    THEN [expr |-> NilExpr, err |-> NilError, panic |-> r.p.panic, left |-> FALSE]
    ELSE Return(r.x, returnedError(r.p), SourceLeft(r.p))

\* ParseExpr after the first p.s.Next(); p0 is the parser then
scanned(p0) ==
    IF p0.serr # "nil"
    THEN Return(NilExpr, [kind |-> "ErrUnexpectedEOF", list |-> <<>>], FALSE)
    ELSE parsed(parseExpr(p0, FALSE))

ParseExpr(s) == scanned(ScanNext(newParser(s)))

(***************************************************************************)
(* The state machine: one call of ParseExpr on the source text src.        *)
(***************************************************************************)
NoResult == [expr |-> NilExpr, err |-> NilError, panic |-> "", left |-> FALSE]

Alphabet ==
    {IdentF, Int1, Tok("Sub"), Tok("Mul"), Tok("LeftParen"), Tok("RightParen"),
     Tok("Comma"), Tok("Period"), Tok("LeftBracket"), Tok("LeftBrace"),
     Tok("Comment")}

SeqsUpTo(S, n) == UNION {[1..k -> S] : k \in 0..n}

Operands == {IdentX, Int1, Int2}

BinOps == {Tok("Add"), Tok("Sub"), Tok("Mul"), Tok("Equal")}

\* operand (binop operand)* with exactly n operands
ChainsOf(n) ==
    {[k \in 1..(2 * n - 1) |->
        IF k % 2 = 1 THEN o[(k + 1) \div 2] ELSE b[k \div 2]] :
        o \in [1..n -> Operands], b \in [1..(n - 1) -> BinOps]}

Chains(n) == UNION {ChainsOf(k) : k \in 1..n}

TypeOK ==
    /\ pc \in {"start", "done"}
    /\ pc = "start" => result = NoResult

Init ==
    /\ src \in SeqsUpTo(Alphabet, MaxLen)
    /\ pc = "start"
    /\ result = NoResult

\* the inputs of the form operand (binop operand)*
InitChain ==
    /\ src \in Chains(MaxOperands)
    /\ pc = "start"
    /\ result = NoResult

\* the inputs ( E ) op F: a parenthesized chain, an operator, an operand
InitParen ==
    /\ src \in {<<Tok("LeftParen")>> \o e \o <<Tok("RightParen"), op, f>> :
                    e \in Chains(MaxGroup), op \in BinOps, f \in Operands}
    /\ pc = "start"
    /\ result = NoResult

\* the well-formed arguments: an operand, a chain or a parenthesized operand
ArgExprs ==
    Chains(2) \cup {<<Tok("LeftParen"), o, Tok("RightParen")>> : o \in {Int1, IdentX}}

RECURSIVE JoinArgs(_)
\* A1 , ... , An
JoinArgs(as) ==
    IF Len(as) = 0 THEN <<>>
    ELSE IF Len(as) = 1 THEN as[1]
    ELSE as[1] \o <<Tok("Comma")>> \o JoinArgs(Tail(as))

\* the inputs f ( A1 , ... , An )
InitCall ==
    /\ src \in {<<IdentF, Tok("LeftParen")>> \o JoinArgs(as) \o <<Tok("RightParen")>> :
                    as \in SeqsUpTo(ArgExprs, MaxArgs)}
    /\ pc = "start"
    /\ result = NoResult

ArgAlphabet == {Int1, IdentX, Tok("Comma"), Tok("Sub"), Tok("Equal")}

StartsOperand(t) ==
    t.tok \in {"Identifier", "Int", "Float", "Imaginary", "String", "LeftParen",
               "Add", "Sub", "Not", "Mul"}

\* an argument is directly followed by the first token of another operand
MissingComma(b) ==
    \E k \in 1..(Len(b) - 1) :
        b[k].tok \in {"Identifier", "Int"} /\ b[k + 1].tok \in {"Identifier", "Int"}

\* a token that cannot start an operand stands where an argument starts
BadArgStart(b) ==
    \E k \in 1..Len(b) :
        /\ k = 1 \/ b[k - 1].tok = "Comma"
        /\ ~StartsOperand(b[k])

\* the argument tokens of a call input f ( b )
Body(s) == SubSeq(s, 3, Len(s) - 1)

\* the inputs f ( b ) whose argument list b is malformed
InitBadCall ==
    /\ src \in {<<IdentF, Tok("LeftParen")>> \o b \o <<Tok("RightParen")>> :
                    b \in {c \in SeqsUpTo(ArgAlphabet, MaxBody) :
                              MissingComma(c) \/ BadArgStart(c)}}
    /\ pc = "start"
    /\ result = NoResult

RECURSIVE Balance(_, _, _)
\* opening minus closing parentheses among s[k..j]
Balance(s, k, j) ==
    IF j < k THEN 0
    ELSE Balance(s, k, j - 1)
         + (IF s[j].tok = "LeftParen" THEN 1 ELSE 0)
         - (IF s[j].tok = "RightParen" THEN 1 ELSE 0)

Repeat(t, n) == [k \in 1..n |-> t]

\* the inputs ( ... ( E ) ... ) with fewer closing than opening parentheses
InitGroup ==
    /\ src \in {Repeat(Tok("LeftParen"), a) \o e \o Repeat(Tok("RightParen"), b) :
                    a \in 1..MaxNest, b \in 0..(MaxNest - 1), e \in Chains(2)}
    /\ Balance(src, 1, Len(src)) > 0
    /\ pc = "start"
    /\ result = NoResult

CallParseExpr ==
    /\ pc = "start"
    /\ result' = ParseExpr(src)
    /\ pc' = "done"
    /\ UNCHANGED src

Next == CallParseExpr

Spec == Init /\ [][Next]_vars

SpecChain == InitChain /\ [][Next]_vars

SpecParen == InitParen /\ [][Next]_vars

SpecCall == InitCall /\ [][Next]_vars

SpecBadCall == InitBadCall /\ [][Next]_vars

SpecGroup == InitGroup /\ [][Next]_vars

(***************************************************************************)
(* Reference precedence grammar, independent of the parser's algorithm:    *)
(* the tree of a well-formed token sequence splits at the rightmost        *)
(* operator of lowest precedence outside all parentheses.                  *)
(***************************************************************************)
RECURSIVE Depth(_, _)
\* the number of parentheses open before position k
Depth(s, k) ==
    IF k <= 1 THEN 0
    ELSE Depth(s, k - 1)
         + (IF s[k - 1].tok = "LeftParen" THEN 1 ELSE 0)
         - (IF s[k - 1].tok = "RightParen" THEN 1 ELSE 0)

EndsOperand(t) == t.tok \in {"Identifier", "Int", "RightParen"}

\* positions of the binary operators outside all parentheses
TopOps(s) ==
    {k \in 2..(Len(s) - 1) :
        /\ Precedence(s[k].tok) > 0
        /\ EndsOperand(s[k - 1])
        /\ Depth(s, k) = 0}

SplitAt(s) ==
    LET least == CHOOSE m \in {Precedence(s[k].tok) : k \in TopOps(s)} :
                    \A k \in TopOps(s) : Precedence(s[k].tok) >= m
    IN  CHOOSE k \in TopOps(s) :
            /\ Precedence(s[k].tok) = least
            /\ \A j \in TopOps(s) : Precedence(s[j].tok) = least => j <= k

Leaf(t) == IF t.tok = "Identifier" THEN Ident(t.lit) ELSE BasicLiteral(t.lit)

RECURSIVE RefTree(_)
RefTree(s) ==
    CASE TopOps(s) # {} ->
            LET k == SplitAt(s)
            IN  BinaryExpr(s[k].tok, RefTree(SubSeq(s, 1, k - 1)),
                           RefTree(SubSeq(s, k + 1, Len(s))))
      [] TopOps(s) = {} /\ Len(s) = 1 -> Leaf(s[1])
      [] TopOps(s) = {} /\ Len(s) > 1 /\ s[1].tok = "LeftParen" ->
            UnaryExpr("LeftParen", RefTree(SubSeq(s, 2, Len(s) - 1)))
      [] OTHER -> NilExpr

RECURSIVE Flatten(_)
\* the operands and operators of a tree, left to right
Flatten(e) ==
    CASE e.kind = "Binary" -> Flatten(e.Left) \o <<Tok(e.Op)>> \o Flatten(e.Right)
      [] e.kind = "Ident" -> <<[tok |-> "Identifier", lit |-> e.Name]>>
      [] e.kind = "BasicLiteral" -> <<[tok |-> "Int", lit |-> e.Value]>>
      [] OTHER -> <<>>

RECURSIVE HasBad(_)
HasBad(e) ==
    CASE e.kind = "Bad" -> TRUE
      [] e.kind = "Binary" -> HasBad(e.Left) \/ HasBad(e.Right)
      [] e.kind = "Unary" -> HasBad(e.Expr)
      [] e.kind = "Call" ->
            HasBad(e.Func) \/ \E i \in 1..Len(e.Args) : HasBad(e.Args[i])
      [] OTHER -> FALSE

(***************************************************************************)
(* C1: for every parenthesis-free input operand (binop operand)*,          *)
(* ParseExpr returns the tree of the reference precedence grammar (equal   *)
(* precedence nests left-first, higher precedence to the right binds       *)
(* tighter), the tree holds every operator and operand of the input        *)
(* exactly once in source order, and no error is returned.                 *)
(***************************************************************************)
C1_PrecedenceTree ==
    pc = "done" =>
        /\ result.panic = ""
        /\ result.expr = RefTree(src)
        /\ Flatten(result.expr) = src
        /\ result.err = NilError

\* a - b * c - d has been parsed: both tie-breaks of the algorithm happen
C1_Witness ==
    /\ pc = "done"
    /\ Len(src) = 7
    /\ src[2].tok = "Sub" /\ src[4].tok = "Mul" /\ src[6].tok = "Sub"
    /\ result.expr.kind = "Binary"
    /\ result.expr.Left.kind = "Binary"
    /\ result.expr.Left.Right.kind = "Binary"
    /\ result.expr.Left.Right.Op = "Mul"

(***************************************************************************)
(* C2: for every input ( E ) op F, ParseExpr returns                       *)
(* Binary(op, Unary(LeftParen, tree(E)), tree(F)): the group is kept as a  *)
(* Unary node tagged LeftParen and what follows the closing parenthesis is *)
(* part of the returned tree.                                              *)
(***************************************************************************)
C2_GroupThenOperator ==
    pc = "done" =>
        LET n == Len(src)
        IN  result.expr =
                BinaryExpr(src[n - 1].tok,
                           UnaryExpr("LeftParen", RefTree(SubSeq(src, 2, n - 3))),
                           RefTree(SubSeq(src, n, n)))

(***************************************************************************)
(* C3: for every input f ( A1 , ... , An ) with well-formed arguments,     *)
(* parenthesized ones included, ParseExpr returns the Call of f whose      *)
(* argument list is tree(A1), ..., tree(An) in source order, and no error. *)
(***************************************************************************)
RECURSIVE ArgTrees(_, _)
\* the reference trees of the arguments of s from position k on
ArgTrees(s, k) ==
    IF k > Len(s) THEN <<>>
    ELSE LET ends == {j \in k..(Len(s) - 1) :
                        /\ Depth(s, j + 1) = 1
                        /\ s[j + 1].tok \in {"Comma", "RightParen"}}
             j == CHOOSE e \in ends : \A e2 \in ends : e <= e2
         IN  IF s[k].tok = "RightParen" THEN <<>>
             ELSE <<RefTree(SubSeq(s, k, j))>> \o ArgTrees(s, j + 2)

C3_CallArguments ==
    pc = "done" =>
        /\ result.panic = ""
        /\ result.expr = CallExpr(Ident(src[1].lit), ArgTrees(src, 3))
        /\ result.err = NilError

C5_TrailingTokensReported ==
    (pc = "done" /\ result.panic = "" /\ result.err.kind # "Errors" /\ result.left)
        => result.err # NilError

(***************************************************************************)
(* C6: for every input with an opening parenthesis of a parenthesized      *)
(* operand that has no closing parenthesis of its own, an "expected        *)
(* RightParen" error is recorded and the returned error is non-nil.        *)
(***************************************************************************)
C6_UnclosedGroupReported ==
    pc = "done" =>
        /\ result.err.kind = "Errors"
        /\ \E i \in 1..Len(result.err.list) :
                /\ Len(result.err.list[i].Msg) = 4
                /\ result.err.list[i].Msg[2] = "RightParen"

(***************************************************************************)
(* C7: whenever Period, LeftBracket or LeftBrace directly follows a parsed *)
(* primary expression (an identifier, a literal, a parenthesized group or  *)
(* a call), the parse panics: ParseExpr returns no tree.                   *)
(***************************************************************************)
PrimaryForms ==
    {<<o>> : o \in {IdentF, Int1}}
      \cup {<<Tok("LeftParen"), o, Tok("RightParen")>> : o \in {IdentF, Int1}}
      \cup {<<IdentF, Tok("LeftParen"), Tok("RightParen")>>}
      \cup {<<IdentF, Tok("LeftParen"), o, Tok("RightParen")>> : o \in {IdentF, Int1}}

SuffixTokens == {"Period", "LeftBracket", "LeftBrace"}

C7_UnsupportedSuffixPanics ==
    (/\ pc = "done"
     /\ \E k \in 2..Len(src) :
            /\ src[k].tok \in SuffixTokens
            /\ SubSeq(src, 1, k - 1) \in PrimaryForms)
        => result.panic # ""

(***************************************************************************)
(* C8: Comment tokens are invisible at every position: ParseExpr returns   *)
(* the same tree and the same error messages for a source as for the       *)
(* source without its Comment tokens.                                      *)
(***************************************************************************)
StripComments(s) == SelectSeq(s, LAMBDA t : t.tok # "Comment")

RECURSIVE Shape(_)
\* a tree without the offsets of the errors its Bad nodes carry
Shape(e) ==
    CASE e.kind = "Bad" -> BadExpr(e.Error.Msg)
      [] e.kind = "Binary" -> BinaryExpr(e.Op, Shape(e.Left), Shape(e.Right))
      [] e.kind = "Unary" -> UnaryExpr(e.Op, Shape(e.Expr))
      [] e.kind = "Call" ->
            CallExpr(Shape(e.Func), [i \in 1..Len(e.Args) |-> Shape(e.Args[i])])
      [] OTHER -> e

Messages(err) == [i \in 1..Len(err.list) |-> err.list[i].Msg]

SameOutcome(a, b) ==
    /\ a.panic = b.panic
    /\ Shape(a.expr) = Shape(b.expr)
    /\ a.err.kind = b.err.kind
    /\ Messages(a.err) = Messages(b.err)

C8_CommentsInvisible ==
    (pc = "done" /\ StripComments(src) # <<>>) =>
        SameOutcome(result, ParseExpr(StripComments(src)))

(***************************************************************************)
(* C9: every entry of the error list carries the offset of the offending   *)
(* token; an "expected operand" entry carries the offset of the token that *)
(* could not start an operand.                                             *)
(***************************************************************************)
TokenAt(s, off) == IF off < Len(s) THEN s[off + 1] ELSE Tok("Unknown")

C9_OffsetOfOffendingToken ==
    (pc = "done" /\ StripComments(src) = src) =>
        \A i \in 1..Len(result.err.list) :
            LET e == result.err.list[i]
            IN  IF e.Msg = <<"expected operand">>
                THEN ~StartsOperand(TokenAt(src, e.Offset))
                ELSE TokenAt(src, e.Offset).tok = e.Msg[4]

(***************************************************************************)
(* C10: if the tree returned by ParseExpr contains a Bad node, the         *)
(* returned error is non-nil.                                              *)
(***************************************************************************)
C10_BadNodeImpliesError ==
    (pc = "done" /\ result.panic = "" /\ HasBad(result.expr))
        => result.err # NilError

====
